---- MODULE Spec2Model ----
(***************************************************************************)
(* UserService (src/infrastructure/db/services/user.py): the CRUD          *)
(* operations over User, each run inside `async with uow`.  A request is a *)
(* process; every await of a handler (scope entry, storage call, commit,   *)
(* scope exit) is one step, so that requests interleave where the event    *)
(* loop lets them.  The repository behind uow.user, the unit of work, the  *)
(* specification objects and the password hash are collaborators outside   *)
(* this file; they are modelled from their documented contract.            *)
(***************************************************************************)
EXTENDS Naturals, Sequences, FiniteSets, TLC

\* Bound: how many users storage ever assigns an id to.
MaxId == 2

\* get_all(skip: int = 0, limit: int = 100)
DefaultSkip == 0
DefaultLimit == 100

Procs == {"r1", "r2"}
Emails == {"a@example.com", "b@example.com"}
Passwords == {"p1", "p2"}
UserIds == 1..MaxId

\* Python's None as a field value, and as an object reference.
PyNone == "None"
None == [none |-> TRUE]

VARIABLES
    storage,   \* committed rows of the users table: id -> User
    nextId,    \* the id the storage layer assigns next
    deleted,   \* history: ids whose deletion was committed
    pc,        \* per request: position inside the handler
    call,      \* per request: the operation called and its arguments
    user,      \* per request: the handler's local `user` / `users`
    schema,    \* per request: the handler's local `_schema`
    handed,    \* per request: arguments of the last storage write call
    result,    \* per request: what the call returned or raised
    trace,     \* per request: scope and storage events of the call, in order
    open,      \* per request: depth of entered `async with uow` scopes
    pending,   \* per request: the write of the session not yet committed
    before     \* per request: history, storage as it was when the call began

vars == <<storage, nextId, deleted, pc, call, user, schema, handed, result,
          trace, open, pending, before>>

----------------------------------------------------------------------------
\* Values

Min(S) == CHOOSE m \in S : \A n \in S : m <= n

Restrict(f, D) == [k \in DOMAIN f \cap D |-> f[k]]

Columns == {"email", "hashed_password"}

\* One-way hash of a plaintext password: an opaque string, never the input.
generate_hashed_password(password) == "$hash$" \o password

UserIDSpecification(id) == [id |-> id]
UserEmailSpecification(email) == [email |-> email]

UserNotFoundException(spec) == [kind |-> "NotFound", spec |-> spec]
UserAlreadyExistsException == [kind |-> "AlreadyExists"]
Return(value) == [kind |-> "return", value |-> value]
NoResult == [kind |-> "none"]

\* Python truthiness of an object reference / of a string field.
not(u) == u = None
Truthy(v) == v # PyNone /\ v # ""

\* schema.<field>: an unset optional field reads as None.
Attr(sch, k) == IF k \in DOMAIN sch THEN sch[k] ELSE PyNone

\* model_dump(exclude=..., exclude_unset=True): the set fields, minus exclude.
model_dump(sch, exclude) == Restrict(sch, DOMAIN sch \ exclude)

\* UserCreate: email and password are both required.
UserCreate == [email : Emails, password : Passwords]

\* UserUpdate: every field optional; the domain is the set of fields set.
UserUpdate ==
    { Restrict([email |-> e, password |-> w],
               {k \in {"email", "password"} :
                    [email |-> e, password |-> w][k] # PyNone}) :
        e \in Emails \cup {PyNone}, w \in Passwords \cup {PyNone} }

----------------------------------------------------------------------------
\* The repository behind uow.user

Matches(u, spec) == \A k \in DOMAIN spec : u[k] = spec[k]

RECURSIVE SortedIds(_)
SortedIds(S) == IF S = {} THEN <<>> ELSE <<Min(S)>> \o SortedIds(S \ {Min(S)})

\* get(spec): the first row the filter matches, or None.
user_get(db, spec) ==
    LET ids == {i \in DOMAIN db : Matches(db[i], spec)}
    IN  IF ids = {} THEN None ELSE db[Min(ids)]

\* get_multi(skip, limit): rows in insertion order, offset skip, at most limit.
user_get_multi(db, skip, limit) ==
    LET ids == SortedIds(DOMAIN db)
        last == IF skip + limit < Len(ids) THEN skip + limit ELSE Len(ids)
    IN  [users |-> [i \in 1..(IF last > skip THEN last - skip ELSE 0)
                        |-> db[ids[skip + i]]]]

NoWrite == [kind |-> "none"]

\* create(create_schema): a new row with the next id and the given columns.
user_create(id, data) ==
    [id |-> id, email |-> Attr(data, "email"),
     hashed_password |-> Attr(data, "hashed_password")]

\* update(spec, update_schema): the matched row with the set columns replaced.
user_update(row, data) ==
    [k \in DOMAIN row |-> IF k \in DOMAIN data \cap Columns THEN data[k] ELSE row[k]]

\* What commit makes of a pending write.
ApplyWrite(db, w) ==
    CASE w.kind = "insert" -> (w.user.id :> w.user) @@ db
      [] w.kind = "update" ->
            IF w.id \in DOMAIN db
            THEN [db EXCEPT ![w.id] = user_update(@, w.data)]
            ELSE db
      [] w.kind = "delete" -> Restrict(db, DOMAIN db \ {w.id})
      [] OTHER -> db

----------------------------------------------------------------------------
\* The unit of work: `async with uow` and uow.commit()

Goto(p, from, to) == pc[p] = from /\ pc' = [pc EXCEPT ![p] = to]
Log(p, events) == trace' = [trace EXCEPT ![p] = @ \o events]

\* __aenter__: the transactional scope is entered.
uow_aenter(p, from, to) ==
    /\ Goto(p, from, to)
    /\ open' = [open EXCEPT ![p] = @ + 1]
    /\ Log(p, <<"enter">>)
    /\ UNCHANGED <<storage, nextId, deleted, call, user, schema, handed,
                   result, pending, before>>

\* commit(): the session's pending write reaches storage.
uow_commit(p, from, to) ==
    /\ Goto(p, from, to)
    /\ storage' = ApplyWrite(storage, pending[p])
    /\ deleted' = IF pending[p].kind = "delete" /\ pending[p].id \in DOMAIN storage
                  THEN deleted \cup {pending[p].id}
                  ELSE deleted
    /\ pending' = [pending EXCEPT ![p] = NoWrite]
    /\ Log(p, <<"commit">>)
    /\ UNCHANGED <<nextId, call, user, schema, handed, result, open, before>>

\* __aexit__: the scope is left; what was not committed is rolled back.
uow_aexit(p, from, to) ==
    /\ Goto(p, from, to)
    /\ open' = [open EXCEPT ![p] = @ - 1]
    /\ pending' = [pending EXCEPT ![p] = NoWrite]
    /\ Log(p, <<"exit">>)
    /\ UNCHANGED <<storage, nextId, deleted, call, user, schema, handed,
                   result, before>>

\* A read through the session: `user = await uow.user.<get...>(...)`.
uow_read(p, from, to, event, value) ==
    /\ Goto(p, from, to)
    /\ user' = [user EXCEPT ![p] = value]
    /\ Log(p, <<event>>)
    /\ UNCHANGED <<storage, nextId, deleted, call, schema, handed, result,
                   open, pending, before>>

\* The handler ends: it returns a value or an exception leaves it.
Finish(p, from, outcome) ==
    /\ Goto(p, from, "done")
    /\ result' = [result EXCEPT ![p] = outcome]
    /\ Log(p, IF outcome.kind = "return" THEN <<>> ELSE <<"raise">>)
    /\ UNCHANGED <<storage, nextId, deleted, call, user, schema, handed,
                   open, pending, before>>

----------------------------------------------------------------------------
\* UserService

\* Faulty variant: the absent result is returned instead of signalled.
found_or_raise_unchecked(u, spec) == Return(u)

\* `if not user: raise UserNotFoundException(spec=spec)`, else `return user`
found_or_raise(u, spec) ==
    IF not(u) THEN UserNotFoundException(spec) ELSE Return(u)

get_by_id(p) ==
    /\ call[p].op = "get_by_id"
    /\ LET spec == UserIDSpecification(call[p].user_id) IN
        \/ uow_aenter(p, "enter", "call")
        \/ uow_read(p, "call", "commit", "get", user_get(storage, spec))
        \/ uow_commit(p, "commit", "exit")
        \/ uow_aexit(p, "exit", "check")
        \/ Finish(p, "check", found_or_raise(user[p], spec))

get_user_with_refresh_session(p) ==
    /\ call[p].op = "get_user_with_refresh_session"
    /\ LET spec == UserEmailSpecification(call[p].email) IN
        \/ uow_aenter(p, "enter", "call")
        \/ uow_read(p, "call", "commit", "get_user_refresh_session",
                    user_get(storage, spec))
        \/ uow_commit(p, "commit", "exit")
        \/ uow_aexit(p, "exit", "check")
        \/ Finish(p, "check", Return(user[p]))

\* Faulty variant: get_all leaves its scope without committing.
get_all_no_commit(p) ==
    /\ call[p].op = "get_all"
    /\ \/ uow_aenter(p, "enter", "call")
       \/ uow_read(p, "call", "exit", "get_multi",
                   user_get_multi(storage, call[p].skip, call[p].limit))
       \/ uow_aexit(p, "exit", "check")
       \/ Finish(p, "check", Return(user[p]))

get_all(p) ==
    /\ call[p].op = "get_all"
    /\ \/ uow_aenter(p, "enter", "call")
       \/ uow_read(p, "call", "commit", "get_multi",
                   user_get_multi(storage, call[p].skip, call[p].limit))
       \/ uow_commit(p, "commit", "exit")
       \/ uow_aexit(p, "exit", "check")
       \/ Finish(p, "check", Return(user[p]))

\* The body of get_by_email, which create also awaits.
get_by_email_body(p, email, after) ==
    LET spec == UserEmailSpecification(email) IN
        \/ uow_aenter(p, "enter", "call")
        \/ uow_read(p, "call", "commit", "get", user_get(storage, spec))
        \/ uow_commit(p, "commit", "exit")
        \/ uow_aexit(p, "exit", after)

get_by_email(p) ==
    /\ call[p].op = "get_by_email"
    /\ \/ get_by_email_body(p, call[p].email, "check")
       \/ Finish(p, "check", Return(user[p]))

\* Faulty variant: the plaintext is stored where the hash belongs.
create_record_plaintext(create_schema) ==
    ("hashed_password" :> create_schema.password)
        @@ model_dump(create_schema, {"password"})

\* `_schema = create_schema.model_dump(exclude={"password"})` and
\* `_schema["hashed_password"] = generate_hashed_password(password=...)`
create_record(create_schema) ==
    ("hashed_password" :> generate_hashed_password(create_schema.password))
        @@ model_dump(create_schema, {"password"})

\* Faulty variant: the result of the email lookup is not consulted.
create_always(u) == TRUE

\* `if not user:` the email is free and the user is created.
create_allowed(u) == not(u)

\* Faulty variant: lookup and write share one transactional scope.
create_one_scope(p) ==
    /\ call[p].op = "create"
    /\ LET spec == UserEmailSpecification(call[p].create_schema.email) IN
        \/ uow_aenter(p, "enter", "call")
        \/ uow_read(p, "call", "branch", "get", user_get(storage, spec))
        \/ /\ create_allowed(user[p])
           /\ Goto(p, "branch", "call2")
           /\ schema' = [schema EXCEPT ![p] = create_record(call[p].create_schema)]
           /\ UNCHANGED <<storage, nextId, deleted, call, user, handed, result,
                          trace, open, pending, before>>
        \/ /\ ~create_allowed(user[p])
           /\ uow_aexit(p, "branch", "raise")
        \/ Finish(p, "raise", UserAlreadyExistsException)
        \/ /\ Goto(p, "call2", "commit2")
           /\ handed' = [handed EXCEPT ![p] = [create_schema |-> schema[p]]]
           /\ user' = [user EXCEPT ![p] = user_create(nextId, schema[p])]
           /\ pending' = [pending EXCEPT ![p] = [kind |-> "insert", user |-> user'[p]]]
           /\ nextId' = nextId + 1
           /\ Log(p, <<"create">>)
           /\ UNCHANGED <<storage, deleted, call, schema, result, open, before>>
        \/ uow_commit(p, "commit2", "exit2")
        \/ uow_aexit(p, "exit2", "check2")
        \/ Finish(p, "check2", Return(user[p]))

create(p) ==
    /\ call[p].op = "create"
    /\ \/ get_by_email_body(p, call[p].create_schema.email, "branch")
       \/ /\ create_allowed(user[p])
          /\ Goto(p, "branch", "enter2")
          /\ schema' = [schema EXCEPT ![p] = create_record(call[p].create_schema)]
          /\ UNCHANGED <<storage, nextId, deleted, call, user, handed, result,
                         trace, open, pending, before>>
       \/ /\ ~create_allowed(user[p])
          /\ Finish(p, "branch", UserAlreadyExistsException)
       \/ uow_aenter(p, "enter2", "call2")
       \/ /\ Goto(p, "call2", "commit2")
          /\ handed' = [handed EXCEPT ![p] = [create_schema |-> schema[p]]]
          /\ user' = [user EXCEPT ![p] = user_create(nextId, schema[p])]
          /\ pending' = [pending EXCEPT ![p] = [kind |-> "insert", user |-> user'[p]]]
          /\ nextId' = nextId + 1
          /\ Log(p, <<"create">>)
          /\ UNCHANGED <<storage, deleted, call, schema, result, open, before>>
       \/ uow_commit(p, "commit2", "exit2")
       \/ uow_aexit(p, "exit2", "check2")
       \/ Finish(p, "check2", Return(user[p]))

\* `_schema` of update: built only when update_schema.password is truthy.
update_record(update_schema) ==
    ("hashed_password" :> generate_hashed_password(update_schema.password))
        @@ model_dump(update_schema, {"password"})

\* Faulty variant: every field is passed on, the unset ones as None.
update_argument_all_fields(update_schema, _schema) ==
    [email |-> Attr(update_schema, "email"),
     password |-> Attr(update_schema, "password")]

\* What update passes to uow.user.update as update_schema=...
update_argument(update_schema, _schema) == update_schema

update(p) ==
    /\ call[p].op = "update"
    /\ LET spec == UserIDSpecification(call[p].user_id)
           row == user_get(storage, spec)
           arg == update_argument(call[p].update_schema, schema[p])
       IN
        \/ /\ Goto(p, "prepare", "enter")
           /\ schema' = [schema EXCEPT ![p] =
                            IF Truthy(Attr(call[p].update_schema, "password"))
                            THEN update_record(call[p].update_schema)
                            ELSE @]
           /\ UNCHANGED <<storage, nextId, deleted, call, user, handed, result,
                          trace, open, pending, before>>
        \/ uow_aenter(p, "enter", "call")
        \/ /\ Goto(p, "call", "commit")
           /\ handed' = [handed EXCEPT ![p] = [spec |-> spec, update_schema |-> arg]]
           /\ user' = [user EXCEPT ![p] =
                          IF not(row) THEN None ELSE user_update(row, arg)]
           /\ pending' = [pending EXCEPT ![p] =
                             IF not(row) THEN NoWrite
                             ELSE [kind |-> "update", id |-> row.id,
                                   data |-> Restrict(arg, Columns)]]
           /\ Log(p, <<"update">>)
           /\ UNCHANGED <<storage, nextId, deleted, call, schema, result, open,
                          before>>
        \/ uow_commit(p, "commit", "exit")
        \/ uow_aexit(p, "exit", "check")
        \/ Finish(p, "check", found_or_raise(user[p], spec))

\* `user = await uow.user.delete(spec=spec)`
delete_call(p) ==
    LET spec == UserIDSpecification(call[p].user_id)
        row == user_get(storage, spec)
    IN  /\ Goto(p, "call", "check")
        /\ handed' = [handed EXCEPT ![p] = [spec |-> spec]]
        /\ user' = [user EXCEPT ![p] = row]
        /\ pending' = [pending EXCEPT ![p] =
                          IF not(row) THEN NoWrite
                          ELSE [kind |-> "delete", id |-> row.id]]
        /\ Log(p, <<"delete">>)
        /\ UNCHANGED <<storage, nextId, deleted, call, schema, result, open,
                       before>>

\* Faulty variant: delete commits before it looks at what was deleted.
delete_raise_after_commit(p) ==
    /\ not(user[p])
    /\ Goto(p, "check", "unwind")
    /\ result' = [result EXCEPT ![p] =
                     UserNotFoundException(UserIDSpecification(call[p].user_id))]
    /\ Log(p, <<"commit", "raise">>)
    /\ UNCHANGED <<storage, nextId, deleted, call, user, schema, handed,
                   open, pending, before>>

\* `if not user: raise UserNotFoundException(spec=spec)`, inside the scope
delete_raise(p) ==
    /\ not(user[p])
    /\ Goto(p, "check", "unwind")
    /\ result' = [result EXCEPT ![p] =
                     UserNotFoundException(UserIDSpecification(call[p].user_id))]
    /\ Log(p, <<"raise">>)
    /\ UNCHANGED <<storage, nextId, deleted, call, user, schema, handed,
                   open, pending, before>>

\* Faulty variant: the deletion is never committed.
delete_commit_skipped(p) ==
    /\ ~not(user[p])
    /\ Goto(p, "check", "exit")
    /\ UNCHANGED <<storage, nextId, deleted, call, user, schema, handed,
                   result, trace, open, pending, before>>

\* `await uow.commit()` of delete, reached when a user was deleted
delete_commit(p) ==
    /\ ~not(user[p])
    /\ uow_commit(p, "check", "exit")

delete(p) ==
    /\ call[p].op = "delete"
    /\ \/ uow_aenter(p, "enter", "call")
       \/ delete_call(p)
       \/ delete_raise(p)
       \/ uow_aexit(p, "unwind", "done")
       \/ delete_commit(p)
       \/ uow_aexit(p, "exit", "return")
       \/ Finish(p, "return", Return(user[p]))

----------------------------------------------------------------------------
\* Requests

NoCall == [op |-> "none"]
EmptyDb == [i \in {} |-> None]

Calls ==
    {[op |-> "get_by_id", user_id |-> i] : i \in UserIds}
    \cup {[op |-> "get_by_email", email |-> e] : e \in Emails}
    \cup {[op |-> "get_user_with_refresh_session", email |-> e] : e \in Emails}
    \cup {[op |-> "get_all", skip |-> s, limit |-> l] :
            s \in {DefaultSkip, 1}, l \in {1, DefaultLimit}}
    \cup {[op |-> "create", create_schema |-> c] : c \in UserCreate}
    \cup {[op |-> "update", user_id |-> i, update_schema |-> u] :
            i \in UserIds, u \in UserUpdate}
    \cup {[op |-> "delete", user_id |-> i] : i \in UserIds}

\* Requests that overlap: creates with either email, and one call of each
\* other operation.
OverlappingCalls ==
    {c \in Calls :
        \/ c.op = "create" /\ c.create_schema.password = "p1"
        \/ c.op \in {"get_by_id", "delete"} /\ c.user_id = 1
        \/ c.op \in {"get_by_email", "get_user_with_refresh_session"}
             /\ c.email = "a@example.com"
        \/ c.op = "get_all" /\ c.skip = DefaultSkip /\ c.limit = DefaultLimit
        \/ c.op = "update" /\ c.user_id = 1
             /\ c.update_schema = [email |-> "b@example.com"]}

EmailTaken(db, email) == \E i \in DOMAIN db : db[i].email = email

\* Creates that have not yet been given their id.
CreatesAhead ==
    Cardinality({q \in Procs : call[q].op = "create"
                    /\ pc[q] \notin {"commit2", "exit2", "check2", "done"}})

StartCall(p, c) ==
    /\ pc[p] = "idle"
    /\ pc' = [pc EXCEPT ![p] = IF c.op = "update" THEN "prepare" ELSE "enter"]
    /\ call' = [call EXCEPT ![p] = c]
    /\ before' = [before EXCEPT ![p] = storage]
    /\ UNCHANGED <<storage, nextId, deleted, user, schema, handed, result,
                   trace, open, pending>>

\* One request at a time.
Begin(p) ==
    /\ \A q \in Procs : pc[q] = "idle"
    /\ \E c \in Calls :
          /\ c.op = "create" =>
                EmailTaken(storage, c.create_schema.email) \/ nextId <= MaxId
          /\ StartCall(p, c)

\* Requests served concurrently.
BeginOverlapping(p) ==
    \E c \in OverlappingCalls :
        /\ c.op = "create" => nextId + CreatesAhead <= MaxId
        /\ StartCall(p, c)

\* The caller has its answer; the request is over.
Returned(p) ==
    /\ pc[p] = "done"
    /\ pc' = [pc EXCEPT ![p] = "idle"]
    /\ call' = [call EXCEPT ![p] = NoCall]
    /\ user' = [user EXCEPT ![p] = None]
    /\ schema' = [schema EXCEPT ![p] = None]
    /\ handed' = [handed EXCEPT ![p] = None]
    /\ result' = [result EXCEPT ![p] = NoResult]
    /\ trace' = [trace EXCEPT ![p] = <<>>]
    /\ before' = [before EXCEPT ![p] = EmptyDb]
    /\ UNCHANGED <<storage, nextId, deleted, open, pending>>

Handler(p) ==
    \/ get_by_id(p)
    \/ get_user_with_refresh_session(p)
    \/ get_all(p)
    \/ get_by_email(p)
    \/ create(p)
    \/ update(p)
    \/ delete(p)

Init ==
    /\ storage = EmptyDb
    /\ nextId = 1
    /\ deleted = {}
    /\ pc = [p \in Procs |-> "idle"]
    /\ call = [p \in Procs |-> NoCall]
    /\ user = [p \in Procs |-> None]
    /\ schema = [p \in Procs |-> None]
    /\ handed = [p \in Procs |-> None]
    /\ result = [p \in Procs |-> NoResult]
    /\ trace = [p \in Procs |-> <<>>]
    /\ open = [p \in Procs |-> 0]
    /\ pending = [p \in Procs |-> NoWrite]
    /\ before = [p \in Procs |-> EmptyDb]

Next == \E p \in Procs : Begin(p) \/ Handler(p) \/ Returned(p)

NextOverlapping == \E p \in Procs : BeginOverlapping(p) \/ Handler(p) \/ Returned(p)

Spec == Init /\ [][Next]_vars

SpecOverlapping == Init /\ [][NextOverlapping]_vars

----------------------------------------------------------------------------
\* Properties

Done(p, op) == pc[p] = "done" /\ call[p].op = op

StorageCalls ==
    {"get", "get_user_refresh_session", "get_multi", "create", "update", "delete"}

Count(t, e) == Cardinality({k \in 1..Len(t) : t[k] = e})

\* Entered scopes not yet left, after the events t.
Depth(t) == Count(t, "enter") - Count(t, "exit")

\* t is a run of whole scopes: enter, one storage call, commit, exit.
RECURSIVE WholeScopes(_)
WholeScopes(t) ==
    \/ t = <<>>
    \/ /\ Len(t) >= 4
       /\ t[1] = "enter" /\ t[2] \in StorageCalls
       /\ t[3] = "commit" /\ t[4] = "exit"
       /\ WholeScopes(SubSeq(t, 5, Len(t)))

\* C1: get_by_id, update (any payload) and delete on an id that is not in
\* storage end by signalling NotFound carrying the id filter of exactly that
\* id; none returns a user or None.
C1_NotFoundOnAbsentId ==
    \A p \in Procs :
        (/\ pc[p] = "done"
         /\ call[p].op \in {"get_by_id", "update", "delete"}
         /\ call[p].user_id \notin DOMAIN before[p])
        => result[p] = [kind |-> "NotFound", spec |-> [id |-> call[p].user_id]]

C1_Witness ==
    \E p \in Procs :
        /\ Done(p, "update")
        /\ "password" \in DOMAIN call[p].update_schema
        /\ call[p].user_id \notin DOMAIN before[p]
        /\ before[p] # EmptyDb
        /\ result[p].kind = "NotFound"

\* C2: create with an email a stored user already holds signals AlreadyExists
\* and writes nothing: the storage create call is never made and storage is
\* after the call what it was before.
C2_CreateExistingEmailNoWrite ==
    \A p \in Procs :
        (Done(p, "create") /\ EmailTaken(before[p], call[p].create_schema.email))
        => /\ result[p] = [kind |-> "AlreadyExists"]
           /\ Count(trace[p], "create") = 0
           /\ handed[p] = None
           /\ storage = before[p]

C2_Witness ==
    \E p \in Procs :
        /\ Done(p, "create")
        /\ EmailTaken(before[p], call[p].create_schema.email)
        /\ result[p].kind = "AlreadyExists"
        /\ Cardinality(DOMAIN storage) = 2

\* C3: create with an email not in storage persists exactly one new record,
\* whose hashed password is the hash of the plaintext and differs from the
\* plaintext; the record handed to storage has no plaintext password field;
\* get_by_id on a stored id returns the stored record.
C3_CreatePersistsHashedRecord ==
    \A p \in Procs :
        /\ (Done(p, "create") /\ ~EmailTaken(before[p], call[p].create_schema.email))
            => /\ result[p].kind = "return"
               /\ LET u == result[p].value
                      cs == call[p].create_schema
                  IN  /\ u.id \notin DOMAIN before[p]
                      /\ DOMAIN storage = DOMAIN before[p] \cup {u.id}
                      /\ \A i \in DOMAIN before[p] : storage[i] = before[p][i]
                      /\ storage[u.id] = u
                      /\ u.email = cs.email
                      /\ u.hashed_password = generate_hashed_password(cs.password)
                      /\ u.hashed_password # cs.password
                      /\ "password" \notin DOMAIN handed[p].create_schema
                      /\ handed[p].create_schema.hashed_password = u.hashed_password
        /\ (Done(p, "get_by_id") /\ call[p].user_id \in DOMAIN before[p])
            => result[p] = Return(before[p][call[p].user_id])

C3_Witness ==
    \E p \in Procs :
        /\ Done(p, "create")
        /\ before[p] # EmptyDb
        /\ ~EmailTaken(before[p], call[p].create_schema.email)
        /\ result[p].kind = "return"
        /\ result[p].value.id \in DOMAIN storage

\* C4: update of an existing id with a new plaintext password hands the
\* storage update call the hashed password and not the plaintext, and the
\* stored hashed password is afterwards the hash of the new password.
C4_UpdateHashesPassword ==
    \A p \in Procs :
        (/\ Done(p, "update")
         /\ "password" \in DOMAIN call[p].update_schema
         /\ call[p].user_id \in DOMAIN before[p])
        => LET h == generate_hashed_password(call[p].update_schema.password)
               arg == handed[p].update_schema
           IN  /\ "password" \notin DOMAIN arg
               /\ "hashed_password" \in DOMAIN arg
               /\ arg.hashed_password = h
               /\ storage[call[p].user_id].hashed_password = h

\* C5: with calls run one after another, no two stored users share an email.
C5_EmailsUnique ==
    \A i, j \in DOMAIN storage :
        i # j => storage[i].email # storage[j].email

\* C6: create looks the email up and writes in two separate transactional
\* scopes: the lookup's scope is committed and left before the write's scope
\* is entered, and between the two the request holds no scope, so another
\* create with the same email can run its own lookup in between.
C6_LookupAndWriteInSeparateScopes ==
    \A p \in Procs :
        call[p].op = "create" =>
            /\ pc[p] \in {"branch", "enter2"} =>
                  open[p] = 0 /\ trace[p] = <<"enter", "get", "commit", "exit">>
            /\ Count(trace[p], "create") > 0 =>
                  SubSeq(trace[p], 1, 6) =
                      <<"enter", "get", "commit", "exit", "enter", "create">>

\* The race: two creates with the same fresh email, neither signalled
\* AlreadyExists, both wrote, two stored users hold the email.
C6_Witness ==
    \E p, q \in Procs :
        /\ p # q
        /\ Done(p, "create") /\ Done(q, "create")
        /\ call[p].create_schema.email = call[q].create_schema.email
        /\ ~EmailTaken(before[p], call[p].create_schema.email)
        /\ ~EmailTaken(before[q], call[q].create_schema.email)
        /\ result[p].kind = "return" /\ result[q].kind = "return"
        /\ Count(trace[p], "create") = 1 /\ Count(trace[q], "create") = 1
        /\ result[p].value.id # result[q].value.id
        /\ {result[p].value.id, result[q].value.id} \subseteq DOMAIN storage
        /\ storage[result[p].value.id].email = storage[result[q].value.id].email

\* C7: a call that returns a result has run only whole scopes (entered, one
\* storage call, commit, left) and at least one; every storage call is made
\* inside an entered scope, scopes are never nested, and no scope or
\* uncommitted write is left when the call ends.
C7_ScopedTransactions ==
    \A p \in Procs :
        /\ open[p] = Depth(trace[p])
        /\ open[p] \in {0, 1}
        /\ \A k \in 1..Len(trace[p]) :
              trace[p][k] \in StorageCalls => Depth(SubSeq(trace[p], 1, k - 1)) = 1
        /\ pc[p] = "done" => open[p] = 0 /\ pending[p] = NoWrite
        /\ (pc[p] = "done" /\ result[p].kind = "return")
              => trace[p] # <<>> /\ WholeScopes(trace[p])

C7_Witness ==
    \E p \in Procs :
        /\ Done(p, "create")
        /\ result[p].kind = "return"
        /\ Len(trace[p]) = 8

\* C8: delete on an existing id returns the user that was deleted and removes
\* it, every other user unchanged; a deleted id never comes back to storage,
\* and a later get_by_id or delete on the deleted id signals NotFound.
C8_DeleteRemoves ==
    /\ deleted \cap DOMAIN storage = {}
    /\ \A p \in Procs :
        /\ (Done(p, "delete") /\ call[p].user_id \in DOMAIN before[p])
            => /\ result[p] = Return(before[p][call[p].user_id])
               /\ call[p].user_id \in deleted
               /\ DOMAIN storage = DOMAIN before[p] \ {call[p].user_id}
               /\ \A i \in DOMAIN storage : storage[i] = before[p][i]
        /\ (/\ pc[p] = "done"
            /\ call[p].op \in {"get_by_id", "delete"}
            /\ call[p].user_id \in deleted
            /\ call[p].user_id \notin DOMAIN before[p])
            => result[p] = UserNotFoundException(UserIDSpecification(call[p].user_id))

C8_Witness ==
    \E p \in Procs :
        /\ Done(p, "get_by_id")
        /\ call[p].user_id \in deleted
        /\ call[p].user_id \notin DOMAIN before[p]
        /\ storage # EmptyDb
        /\ result[p].kind = "NotFound"

\* C9: update on an existing id leaves every field the payload does not set,
\* the user's id, and every other user unchanged; setting only the email
\* leaves the stored hashed password as it was.
C9_UpdateFrame ==
    \A p \in Procs :
        (Done(p, "update") /\ call[p].user_id \in DOMAIN before[p])
        => LET id == call[p].user_id
               set == DOMAIN call[p].update_schema
           IN  /\ DOMAIN storage = DOMAIN before[p]
               /\ \A i \in DOMAIN storage \ {id} : storage[i] = before[p][i]
               /\ storage[id].id = id
               /\ "email" \notin set => storage[id].email = before[p][id].email
               /\ "password" \notin set =>
                     storage[id].hashed_password = before[p][id].hashed_password
               /\ result[p].kind = "return" /\ result[p].value = storage[id]

C9_Witness ==
    \E p \in Procs :
        /\ Done(p, "update")
        /\ call[p].user_id \in DOMAIN before[p]
        /\ DOMAIN call[p].update_schema = {"email"}
        /\ storage[call[p].user_id].email # before[p][call[p].user_id].email
        /\ storage[call[p].user_id].hashed_password
              = before[p][call[p].user_id].hashed_password

\* C10: on an absent id delete signals NotFound inside the scope, before any
\* commit, and the signal leaves the scope; get_by_id and update commit and
\* leave the scope first and signal NotFound afterwards; storage is unchanged
\* in all three.
C10_NotFoundCommitOrder ==
    \A p \in Procs :
        (/\ pc[p] = "done"
         /\ call[p].op \in {"get_by_id", "update", "delete"}
         /\ call[p].user_id \notin DOMAIN before[p])
        => /\ storage = before[p]
           /\ result[p].kind = "NotFound"
           /\ trace[p] =
                CASE call[p].op = "delete" -> <<"enter", "delete", "raise", "exit">>
                  [] call[p].op = "get_by_id" ->
                        <<"enter", "get", "commit", "exit", "raise">>
                  [] call[p].op = "update" ->
                        <<"enter", "update", "commit", "exit", "raise">>

C10_Witness ==
    \E p \in Procs :
        /\ Done(p, "delete")
        /\ call[p].user_id \notin DOMAIN before[p]
        /\ before[p] # EmptyDb
        /\ trace[p] = <<"enter", "delete", "raise", "exit">>

====
